---------------------------- MODULE Spec2Model ----------------------------
(***************************************************************************)
(* A model of the wire-level core of vrpn-rs: the message-size arithmetic  *)
(* (MessageSize), and the frame encoder / decoder for sequenced generic    *)
(* messages (Buffer / Unbuffer for SequencedMessage<GenericBody>).         *)
(*                                                                         *)
(* Machine integers.  TLC's integers are 32-bit signed, the program's are  *)
(* usize (64-bit target) and u32.  A machine value is therefore kept as a  *)
(* word [pow, off] that stands for                                         *)
(*        off            when pow = 0                                      *)
(*        2^32 + off     when pow = 32                                     *)
(*        2^64 + off     when pow = 64                                     *)
(* with off small.  A usize is canonically (0, off >= 0), (32, off) or     *)
(* (64, off < 0); a u32 is (0, off >= 0) or (32, off < 0).  All anchors    *)
(* are multiples of 2^32, so truncation to u32 and the remainder modulo    *)
(* ALIGN depend on off alone.  Signed i32 fields are plain integers.       *)
(***************************************************************************)
EXTENDS Integers, Sequences, FiniteSets, TLC

VARIABLES
    overflow_checks,  \* build profile: TRUE = overflow checks on (dev/test), FALSE = release
    calc,             \* MessageSize arithmetic: the last call and its results
    out,              \* the encoder's destination buffer (BufMut): bytes written and free room
    sent,             \* the messages encoded into out, in order
    buf,              \* the decoder's input buffer (Bytes)
    held,             \* bytes of the wire that have not reached buf yet
    origin,           \* how buf was filled: "none", "frames" or "raw"
    supplied,         \* TRUE once the withheld bytes were appended to buf
    calls,            \* decode calls made on buf since it was filled
    clean,            \* TRUE while no decode call on buf has failed
    delivered,        \* the messages decoded from buf, in order
    before,           \* buf as it was when the last decode call started
    ret,              \* the result of the last encode or decode call, not yet acted on
    serde,            \* the serde layer: the last to_bytes / from_buf / parse call and its result
    idq,              \* the last query about an ID (filter match, range) and its answer
    endpoint,         \* EndpointFile: the file opened, the outcome of new(), the frames decoded
    stream,           \* the bytes an AsyncRead stream still has to give
    rbuf,             \* the BytesMut the stream is read into: its bytes and its capacity
    rd,               \* the last read call on stream and rbuf, and its result
    now,              \* the clock of the ping monitor, in timer periods
    ping,             \* the ping client: Idle or Awaiting, and when the unanswered ping was sent
    wire,             \* pings on the connection: sent, unanswered, and when the first unanswered went
    pev,              \* the last event of the ping monitor: a poll or a pong, and what it did
    outbound,         \* EndpointFile as an Endpoint: the last send call, the buffer, the peer's log
    conn,             \* a ConnectionIP: its dispatcher's translation tables
    issued,           \* per category and name, the local IDs the connection has given out for it
    tev               \* the last call on the connection's tables and its result

buildVars == <<overflow_checks>>
sizeVars  == <<calc>>
codecVars == <<out, sent, buf, held, origin, supplied, calls, clean, delivered, before, ret>>
serdeVars == <<serde>>
idVars    == <<idq>>
fileVars  == <<endpoint, outbound>>
tableVars == <<conn, issued, tev>>
readVars  == <<stream, rbuf, rd>>
pingVars  == <<now, ping, wire, pev>>
layerVars == <<serdeVars, idVars, fileVars, readVars, pingVars, tableVars>>
vars      == <<buildVars, sizeVars, codecVars, layerVars>>

---------------------------------------------------------------------------
(* Bounds of the model *)

\* largest body length the size arithmetic is called with near each anchor
MaxSizeArg == 40
\* largest body of an encoded message
MaxBodyLen == 9
\* largest free room of a destination buffer
MaxRoom == 56
\* most filler bytes after the length field of a hand-made input buffer
MaxRawTail == 28
\* largest length field below 2^31 of a hand-made input buffer
MaxRawField == 34
\* most decode calls on one input buffer
MaxCalls == 3
\* longest hand-made input buffer of the serde layer
MaxSerdeBuf == 9
\* most bytes that follow an encoded value in a serde input buffer
MaxTrailing == 2
\* most 4-byte fields of a typed message body
MaxTypedFields == 2
\* largest ID queried next to the extremes of i32, and smallest as its negation
MaxId == 5
\* longest translation table an ID is ranged against
MaxTableLen == 4
\* largest minor version of a file's cookie
MaxMinor == 5
\* most frames in a file after its cookie
MaxFrames == 3
\* most bytes a stream holds
MaxStream == 26
\* most bytes already in the buffer a stream is read into
MaxBuffered == 2
\* most spare capacity of that buffer
MaxSpare == 25
\* timer periods the ping monitor is followed for
MaxTicks == 7
\* distinct names registered with a connection
MaxNames == 3

---------------------------------------------------------------------------
(* Machine words *)

W(p, o) == [pow |-> p, off |-> o]

Small(n) == W(0, n)

\* the value a panicking computation leaves behind
Panic == W(-1, 0)

\* wrapping / checked usize addition; at most one operand is anchored away from 0
usize_add(a, b) ==
    IF a = Panic \/ b = Panic THEN Panic
    ELSE LET p == IF a.pow >= b.pow THEN a.pow ELSE b.pow
             o == a.off + b.off
         IN  IF p = 64 /\ o >= 0
             THEN IF overflow_checks THEN Panic ELSE W(0, o)
             ELSE W(p, o)

\* wrapping / checked usize subtraction a - b, for b below 2^31 (b.pow = 0)
usize_sub(a, b) ==
    IF a = Panic \/ b = Panic THEN Panic
    ELSE LET o == a.off - b.off
         IN  IF a.pow = 0 /\ o < 0
             THEN IF overflow_checks THEN Panic ELSE W(64, o)
             ELSE W(a.pow, o)

\* len % k for k a power of two up to 2^32
usize_rem(a, k) == a.off % k

\* a < b on usize
usize_lt(a, b) == a.pow < b.pow \/ (a.pow = b.pow /\ a.off < b.off)

\* `x as u32`: truncation of a usize to its low 32 bits
as_u32(a) ==
    IF a = Panic THEN Panic
    ELSE IF a.off >= 0 THEN W(0, a.off) ELSE W(32, a.off)

---------------------------------------------------------------------------
(* Constants *)

ALIGN == 8

UNPADDED_HEADER_SIZE == 5 * 4

SIZE_OF_U32 == 4

---------------------------------------------------------------------------
(* MessageSize *)

\* faulty variant, for testing the property below: the zero-remainder case forgotten
compute_padding_always(len) == ALIGN - usize_rem(len, ALIGN)

compute_padding(len) ==
    LET remainder == usize_rem(len, ALIGN)
    IN  IF remainder # 0 THEN ALIGN - remainder ELSE 0

padded(len) == usize_add(len, Small(compute_padding(len)))

from_unpadded_body_size(n) == [unpadded_body_size |-> n]

\* faulty variant, for testing the property below: the unpadded header size subtracted
from_length_field_unpadded_header(f) ==
    from_unpadded_body_size(usize_sub(f, Small(UNPADDED_HEADER_SIZE)))

from_length_field(f) ==
    from_unpadded_body_size(usize_sub(f, padded(Small(UNPADDED_HEADER_SIZE))))

unpadded_body_size(size) == size.unpadded_body_size

\* faulty variant, for testing the property below: the unpadded header size added
length_field_unpadded_header(size) ==
    as_u32(usize_add(size.unpadded_body_size, Small(UNPADDED_HEADER_SIZE)))

length_field(size) ==
    as_u32(usize_add(size.unpadded_body_size, padded(Small(UNPADDED_HEADER_SIZE))))

padded_body_size(size) == padded(size.unpadded_body_size)

\* faulty variant, for testing the property below: the padding of the padded body size
body_padding_of_padded(size) == compute_padding(padded_body_size(size))

body_padding(size) == compute_padding(size.unpadded_body_size)

padded_message_size(size) ==
    usize_add(padded_body_size(size), padded(Small(UNPADDED_HEADER_SIZE)))

\* the test module's transcription of vrpn_Endpoint::marshall_message
transcribed_padding_function(len) ==
    LET ceil_len   == IF usize_rem(len, ALIGN) # 0
                      THEN usize_add(len, Small(ALIGN - usize_rem(len, ALIGN)))
                      ELSE len
        header0    == 5 * 4
        header_len == IF (header0 % ALIGN) # 0
                      THEN header0 + (ALIGN - (header0 % ALIGN))
                      ELSE header0
    IN  [header_len |-> header_len,
         total_len  |-> usize_add(Small(header_len), ceil_len),
         len_field  |-> as_u32(usize_add(Small(header_len), len))]

---------------------------------------------------------------------------
(* The size arithmetic as a state machine: one call per step *)

\* body sizes: lengths of byte buffers, near 0 and around 2^32
BodySizeArgs ==
    {Small(n) : n \in 0..MaxSizeArg} \cup {W(32, d) : d \in (0 - MaxSizeArg)..MaxSizeArg}

\* u32 length fields: near 0 and just below 2^32
LengthFieldArgs ==
    {Small(n) : n \in 0..MaxSizeArg} \cup {W(32, d) : d \in (0 - MaxSizeArg)..(0 - 1)}

NoCalc ==
    [fn |-> "none", arg |-> Small(0), size |-> from_unpadded_body_size(Small(0)),
     length_field |-> Small(0), padded_message_size |-> Small(0),
     back |-> from_unpadded_body_size(Small(0))]

\* MessageSize::from_unpadded_body_size(len) and the accessors the tests read from it
Measure(fn, arg, size) ==
    [fn |-> fn, arg |-> arg, size |-> size,
     length_field |-> length_field(size),
     padded_message_size |-> padded_message_size(size),
     back |-> from_length_field(length_field(size))]

CallFromUnpaddedBodySize ==
    /\ \E len \in BodySizeArgs :
          calc' = Measure("from_unpadded_body_size", len, from_unpadded_body_size(len))
    /\ UNCHANGED <<buildVars, codecVars, layerVars>>

CallFromLengthField ==
    /\ \E f \in LengthFieldArgs :
          calc' = Measure("from_length_field", f, from_length_field(f))
    /\ UNCHANGED <<buildVars, codecVars, layerVars>>

---------------------------------------------------------------------------
(* Bytes and the fixed-width primitives *)

\* BufMut::put_i32_be: the four big-endian bytes of a signed 32-bit value
put_i32_be(v) ==
    << (v \div 16777216) % 256, (v \div 65536) % 256, (v \div 256) % 256, v % 256 >>

\* BufMut::put_u32_be: the four big-endian bytes of a u32 word
put_u32_be(w) == put_i32_be(w.off)

\* Buf::get_i32_be
get_i32_be(b) ==
    (IF b[1] >= 128 THEN b[1] - 256 ELSE b[1]) * 16777216 + b[2] * 65536 + b[3] * 256 + b[4]

\* Buf::get_u32_be
get_u32_be(b) ==
    LET v == get_i32_be(b) IN IF v >= 0 THEN W(0, v) ELSE W(32, v)

\* Bytes::split_to(at) / Buf::advance(at): what is left after the first `at` bytes
advance(b, at) == SubSeq(b, at + 1, Len(b))

\* BufMut::put of a slice into a destination with enough room
put_slice(o, bytes) == [data |-> o.data \o bytes, room |-> o.room - Len(bytes)]

\* Buffer::buffer_ref of a 4-byte primitive: OutOfBuffer unless 4 bytes are free
primitive_buffer_ref(bytes, r) ==
    IF ~r.ok THEN r
    ELSE IF r.out.room < Len(bytes) THEN [ok |-> FALSE, out |-> r.out]
    ELSE [ok |-> TRUE, out |-> put_slice(r.out, bytes)]

\* Unbuffer::unbuffer_ref of a 4-byte primitive: NeedMoreData(Exactly(4 - len)) and an
\* untouched buffer when fewer than 4 bytes remain, else the bytes and the advanced buffer
primitive_unbuffer_ref(b) ==
    IF Len(b) < SIZE_OF_U32
    THEN [ok |-> FALSE, need |-> SIZE_OF_U32 - Len(b), bytes |-> <<0, 0, 0, 0>>, rest |-> b]
    ELSE [ok |-> TRUE, need |-> 0, bytes |-> SubSeq(b, 1, SIZE_OF_U32),
          rest |-> advance(b, SIZE_OF_U32)]

---------------------------------------------------------------------------
(* Messages *)

TimeVal(sec, usec) == [sec |-> sec, usec |-> usec]

MessageHeader(time, message_type, sender) ==
    [time |-> time, message_type |-> message_type, sender |-> sender]

GenericBody(inner) == [inner |-> inner]

SequencedMessage(time, message_type, sender, body, sequence_number) ==
    [message |-> [header |-> MessageHeader(time, message_type, sender), body |-> body],
     sequence_number |-> sequence_number]

NoMessage == SequencedMessage(TimeVal(0, 0), 0, 0, GenericBody(<<>>), Small(0))

generic_message_size(msg) ==
    from_unpadded_body_size(Small(Len(msg.message.body.inner)))

buffer_size(msg) == padded_message_size(generic_message_size(msg))

Zeros(n) == [i \in 1..n |-> 0]

---------------------------------------------------------------------------
(* Encoding: Buffer for SequencedMessage<GenericBody> *)

\* faulty variant, for testing the property below: a destination with exactly enough room refused
OutOfBuffer_or_exact(o, size) == ~usize_lt(padded_message_size(size), Small(o.room))

OutOfBuffer(o, size) == usize_lt(Small(o.room), padded_message_size(size))

\* faulty variant, for testing the property below: the message type written before the sender
buffer_header_type_first(msg, size, o) ==
    primitive_buffer_ref(put_u32_be(msg.sequence_number),
    primitive_buffer_ref(put_i32_be(msg.message.header.sender),
    primitive_buffer_ref(put_i32_be(msg.message.header.message_type),
    primitive_buffer_ref(put_i32_be(msg.message.header.time.usec),
    primitive_buffer_ref(put_i32_be(msg.message.header.time.sec),
    primitive_buffer_ref(put_u32_be(length_field(size)),
        [ok |-> TRUE, out |-> o]))))))

\* the length field, the header fields and the sequence number, one primitive after another
buffer_header(msg, size, o) ==
    primitive_buffer_ref(put_u32_be(msg.sequence_number),
    primitive_buffer_ref(put_i32_be(msg.message.header.message_type),
    primitive_buffer_ref(put_i32_be(msg.message.header.sender),
    primitive_buffer_ref(put_i32_be(msg.message.header.time.usec),
    primitive_buffer_ref(put_i32_be(msg.message.header.time.sec),
    primitive_buffer_ref(put_u32_be(length_field(size)),
        [ok |-> TRUE, out |-> o]))))))

\* the body bytes, then body_padding() zero bytes
buffer_body(msg, size, o) ==
    put_slice(put_slice(o, msg.message.body.inner), Zeros(body_padding(size)))

buffer_ref(msg, o) ==
    LET size == generic_message_size(msg)
        hdr  == buffer_header(msg, size, o)
    IN  IF OutOfBuffer(o, size) THEN [kind |-> "OutOfBuffer", out |-> o]
        ELSE IF ~hdr.ok THEN [kind |-> "OutOfBuffer", out |-> hdr.out]
        ELSE [kind |-> "Ok", out |-> buffer_body(msg, size, hdr.out)]

---------------------------------------------------------------------------
(* Decoding: Unbuffer for SequencedMessage<GenericBody> *)

\* results of a decode call: the value returned and the buffer as the call leaves it
DecodeOk(msg, b) ==
    [kind |-> "Ok", required |-> "None", bytes |-> Small(0), msg |-> msg,
     panic |-> "", buf |-> b]

NeedMoreData(required, n, b) ==
    [kind |-> "NeedMoreData", required |-> required, bytes |-> n, msg |-> NoMessage,
     panic |-> "", buf |-> b]

Panicked(why, b) ==
    [kind |-> "Panic", required |-> "None", bytes |-> Small(0), msg |-> NoMessage,
     panic |-> why, buf |-> b]

\* faulty variant, for testing the property below: the body buffer cloned but not advanced
GenericBody_unbuffer_ref_no_advance(b) == [body |-> GenericBody(b), rest |-> b]

\* Unbuffer for GenericBody: takes the whole buffer it is given
GenericBody_unbuffer_ref(b) == [body |-> GenericBody(b), rest |-> advance(b, Len(b))]

\* faulty variant, for testing the property below: the length field already read is counted again
expected_remaining_bytes_whole_frame(size) == padded_message_size(size)

\* the bytes the frame still needs after its length field
expected_remaining_bytes(size) ==
    usize_sub(padded_message_size(size), Small(SIZE_OF_U32))

\* the first assertion: reading the sequence number left the decoder aligned
aligned_after_header(initial_remaining, remaining) ==
    (initial_remaining - remaining) % ALIGN = 0

unbuffer_ref(b) ==
    LET initial_remaining == Len(b)
        lf       == primitive_unbuffer_ref(b)
        size     == from_length_field(get_u32_be(lf.bytes))
        expected == expected_remaining_bytes(size)
        sec      == primitive_unbuffer_ref(lf.rest)
        usec     == primitive_unbuffer_ref(sec.rest)
        sender   == primitive_unbuffer_ref(usec.rest)
        mtype    == primitive_unbuffer_ref(sender.rest)
        seqno    == primitive_unbuffer_ref(mtype.rest)
        blen     == unpadded_body_size(size)
        body     == GenericBody_unbuffer_ref(SubSeq(seqno.rest, 1, blen.off))
        after    == advance(seqno.rest, blen.off)
        pad      == body_padding(size)
    IN  IF ~lf.ok THEN NeedMoreData("AtLeast", Small(lf.need), lf.rest)
        ELSE IF blen = Panic \/ expected = Panic
             THEN Panicked("arithmetic overflow", lf.rest)
        ELSE IF usize_lt(Small(Len(lf.rest)), expected)
             THEN NeedMoreData("Exactly", usize_sub(expected, Small(Len(lf.rest))), lf.rest)
        ELSE IF ~sec.ok THEN NeedMoreData("Exactly", Small(sec.need), sec.rest)
        ELSE IF ~usec.ok THEN NeedMoreData("Exactly", Small(usec.need), usec.rest)
        ELSE IF ~sender.ok THEN NeedMoreData("Exactly", Small(sender.need), sender.rest)
        ELSE IF ~mtype.ok THEN NeedMoreData("Exactly", Small(mtype.need), mtype.rest)
        ELSE IF ~seqno.ok THEN NeedMoreData("Exactly", Small(seqno.need), seqno.rest)
        ELSE IF ~aligned_after_header(initial_remaining, Len(seqno.rest))
             THEN Panicked("assert aligned", seqno.rest)
        ELSE IF usize_lt(Small(Len(seqno.rest)), blen)
             THEN Panicked("split_to out of bounds", seqno.rest)
        ELSE IF Len(body.rest) # 0 THEN Panicked("assert body_buf empty", after)
        ELSE IF Len(after) < pad THEN Panicked("split_to out of bounds", after)
        ELSE DecodeOk(SequencedMessage(TimeVal(get_i32_be(sec.bytes), get_i32_be(usec.bytes)),
                                       get_i32_be(mtype.bytes), get_i32_be(sender.bytes),
                                       body.body, get_u32_be(seqno.bytes)),
                      advance(after, pad))

---------------------------------------------------------------------------
(* The codec as a state machine *)

\* header fields of the messages encoded: ordinary values, and values with the sign
\* bit, distinct bytes and a sequence number above 2^31 (a system message type is negative)
\* and the first byte of the body sent with them
Headers ==
    { <<TimeVal(1, 2), 4, 3, Small(5), 1>>,
      <<TimeVal(1541000000, 999999), 0 - 1, 0, W(32, 0 - 1), 250>>,
      <<TimeVal(0, 0), 258, 0 - 2, Small(0), 1>> }

\* a body of n bytes counting up from s (modulo 256)
Body(n, s) == [i \in 1..n |-> (s + i - 1) % 256]

Messages ==
    { SequencedMessage(h[1], h[2], h[3], GenericBody(Body(n, h[5])), h[4]) :
          h \in Headers, n \in 0..MaxBodyLen }

\* length fields of hand-made input buffers: small ones, and the largest u32 values
RawLengthFields ==
    {Small(n) : n \in 0..MaxRawField} \cup {W(32, 0 - 1), W(32, 0 - 8), W(32, 0 - 24)}

NoRet ==
    [fn |-> "none", kind |-> "none", required |-> "None", bytes |-> Small(0),
     msg |-> NoMessage, panic |-> "", room |-> 0]

CodecIdle ==
    /\ out = [data |-> <<>>, room |-> 0]
    /\ sent = <<>>
    /\ buf = <<>>
    /\ held = <<>>
    /\ origin = "none"
    /\ supplied = FALSE
    /\ calls = 0
    /\ clean = TRUE
    /\ delivered = <<>>
    /\ before = <<>>
    /\ ret = NoRet

\* the caller takes a fresh destination buffer with `room` free bytes
NewBuffer ==
    /\ CodecIdle
    /\ \E room \in 0..MaxRoom : out' = [data |-> <<>>, room |-> room]
    /\ sent' = <<>>
    /\ buf' = <<>>
    /\ held' = <<>>
    /\ origin' = "none"
    /\ supplied' = FALSE
    /\ calls' = 0
    /\ clean' = TRUE
    /\ delivered' = <<>>
    /\ before' = <<>>
    /\ ret' = NoRet
    /\ UNCHANGED <<buildVars, sizeVars, layerVars>>

\* msg.buffer_ref(&mut out)
Encode ==
    /\ origin = "none"
    /\ ret.kind # "OutOfBuffer"
    /\ \E msg \in Messages :
          LET r == buffer_ref(msg, out)
          IN  /\ out' = r.out
              /\ sent' = IF r.kind = "Ok" THEN Append(sent, msg) ELSE sent
              /\ ret' = [NoRet EXCEPT !.fn = "buffer_ref", !.kind = r.kind, !.msg = msg,
                                       !.room = out.room]
    /\ before' = out.data
    /\ UNCHANGED <<buf, held, origin, supplied, calls, clean, delivered>>
    /\ UNCHANGED <<buildVars, sizeVars, layerVars>>

\* the bytes written reach the decoder's buffer, all but the last k of them
Transmit ==
    /\ origin = "none"
    /\ ret.kind = "Ok"
    /\ \E k \in 0..Len(out.data) :
          /\ buf' = SubSeq(out.data, 1, Len(out.data) - k)
          /\ held' = advance(out.data, Len(out.data) - k)
    /\ out' = [data |-> <<>>, room |-> 0]
    /\ origin' = "frames"
    /\ before' = <<>>
    /\ ret' = NoRet
    /\ UNCHANGED <<sent, supplied, calls, clean, delivered>>
    /\ UNCHANGED <<buildVars, sizeVars, layerVars>>

\* a hand-made input buffer: any length field, followed by up to MaxRawTail bytes
LoadRaw ==
    /\ CodecIdle
    /\ \E f \in RawLengthFields, n \in 0..MaxRawTail :
          buf' = put_u32_be(f) \o Body(n, 1)
    /\ out' = [data |-> <<>>, room |-> 0]
    /\ sent' = <<>>
    /\ held' = <<>>
    /\ origin' = "raw"
    /\ supplied' = FALSE
    /\ calls' = 0
    /\ clean' = TRUE
    /\ delivered' = <<>>
    /\ before' = <<>>
    /\ ret' = NoRet
    /\ UNCHANGED <<buildVars, sizeVars, layerVars>>

\* SequencedMessage::<GenericBody>::unbuffer_ref(&mut buf)
Decode ==
    /\ origin # "none"
    /\ ret.kind # "Panic"
    /\ calls < MaxCalls
    /\ LET r == unbuffer_ref(buf)
       IN  /\ buf' = r.buf
           /\ ret' = [fn |-> "unbuffer_ref", kind |-> r.kind, required |-> r.required,
                      bytes |-> r.bytes, msg |-> r.msg, panic |-> r.panic, room |-> 0]
           /\ delivered' = IF r.kind = "Ok" THEN Append(delivered, r.msg) ELSE delivered
           /\ clean' = (clean /\ r.kind = "Ok")
    /\ before' = buf
    /\ calls' = calls + 1
    /\ UNCHANGED <<out, sent, held, origin, supplied>>
    /\ UNCHANGED <<buildVars, sizeVars, layerVars>>

\* the caller answers NeedMoreData: the withheld bytes are appended to the buffer
Supply ==
    /\ origin = "frames"
    /\ ret.kind = "NeedMoreData"
    /\ held # <<>>
    /\ buf' = buf \o held
    /\ held' = <<>>
    /\ supplied' = TRUE
    /\ ret' = NoRet
    /\ UNCHANGED <<out, sent, origin, calls, clean, delivered, before>>
    /\ UNCHANGED <<buildVars, sizeVars, layerVars>>

---------------------------------------------------------------------------
(* The serde layer: fixed-width primitives (ser.rs, de.rs) *)

\* the fixed-width integer types PrimitiveSerde is implemented for
PrimitiveTypes == {"i8", "u8", "i16", "u16", "i32", "u32", "i64", "u64"}

\* std::mem::size_of::<T>()
size_of(ty) ==
    CASE ty \in {"i8", "u8"} -> 1
      [] ty \in {"i16", "u16"} -> 2
      [] ty \in {"i32", "u32"} -> 4
      [] ty \in {"i64", "u64"} -> 8

\* a primitive value: lo is the value itself for the types of up to 32 bits; a 64-bit
\* value is hi * 2^32 + lo with lo a u32 (words as above)
Prim(ty, hi, lo) == [ty |-> ty, hi |-> hi, lo |-> lo]

put_i8(n) == << n % 256 >>

\* faulty variant, for testing the property below: the low byte first
put_i16_le(n) == << n % 256, (n \div 256) % 256 >>

put_i16_be(n) == << (n \div 256) % 256, n % 256 >>

put_i64_be(hi, lo) == put_i32_be(hi.off) \o put_u32_be(lo)

get_i8(b) == IF b[1] >= 128 THEN b[1] - 256 ELSE b[1]

get_u8(b) == b[1]

get_i16_be(b) == (IF b[1] >= 128 THEN b[1] - 256 ELSE b[1]) * 256 + b[2]

get_u16_be(b) == b[1] * 256 + b[2]

\* PrimitiveSerde::put / the serializer's put_*_be: the big-endian bytes of a value
PrimitiveSerde_put(v) ==
    CASE size_of(v.ty) = 1 -> put_i8(v.lo.off)
      [] size_of(v.ty) = 2 -> put_i16_be(v.lo.off)
      [] size_of(v.ty) = 4 -> put_u32_be(v.lo)
      [] size_of(v.ty) = 8 -> put_i64_be(v.hi, v.lo)

\* PrimitiveSerde::get: the value of the first size_of(ty) bytes
PrimitiveSerde_get(ty, b) ==
    CASE ty = "i8"  -> Prim(ty, Small(0), Small(get_i8(b)))
      [] ty = "u8"  -> Prim(ty, Small(0), Small(get_u8(b)))
      [] ty = "i16" -> Prim(ty, Small(0), Small(get_i16_be(b)))
      [] ty = "u16" -> Prim(ty, Small(0), Small(get_u16_be(b)))
      [] ty = "i32" -> Prim(ty, Small(0), Small(get_i32_be(b)))
      [] ty = "u32" -> Prim(ty, Small(0), get_u32_be(b))
      [] ty = "i64" -> Prim(ty, Small(get_i32_be(SubSeq(b, 1, 4))), get_u32_be(SubSeq(b, 5, 8)))
      [] ty = "u64" -> Prim(ty, get_u32_be(SubSeq(b, 1, 4)), get_u32_be(SubSeq(b, 5, 8)))

\* a value handed to serde: its shape, its primitive fields in declaration order, and
\* the value of a boolean
SerdeValue(shape, fields, flag) == [shape |-> shape, fields |-> fields, flag |-> flag]

\* shapes built from primitives in a fixed layout
FixedShapes == {"struct", "tuple", "tuple_struct"}

\* shapes the Serializer has no encoding for
PanickingShapes ==
    {"char", "str", "none", "some", "map", "unit_variant", "newtype_variant",
     "tuple_variant", "struct_variant"}

SerOk(output) == [kind |-> "Ok", bytes |-> output]

\* unimplemented!()
SerPanic(output) == [kind |-> "Panic", bytes |-> output]

\* Serializer::serialize_bool: serialize_i16 of 1 or 0
serialize_bool(output, v) ==
    SerOk(output \o put_i16_be(IF v THEN 1 ELSE 0))

\* Serializer::serialize_i8 .. serialize_u64: reserve, then put big-endian
serialize_primitive(output, v) == SerOk(output \o PrimitiveSerde_put(v))

\* SerializeSeq / SerializeTuple / SerializeTupleStruct / SerializeStruct:
\* serialize_element / serialize_field of each field in turn, then end()
RECURSIVE serialize_fields(_, _)
serialize_fields(output, fields) ==
    IF fields = <<>> THEN SerOk(output)
    ELSE serialize_fields(serialize_primitive(output, Head(fields)).bytes, Tail(fields))

\* value.serialize(&mut serializer): the Serializer method serde calls for each shape
serialize(output, value) ==
    CASE value.shape = "prim" -> serialize_primitive(output, value.fields[1])
      [] value.shape = "bool" -> serialize_bool(output, value.flag)
      [] value.shape = "unit" -> SerOk(output)
      [] value.shape = "newtype_struct" -> serialize_primitive(output, value.fields[1])
      [] value.shape \in FixedShapes \cup {"seq"} -> serialize_fields(output, value.fields)
      [] value.shape \in PanickingShapes -> SerPanic(output)

\* to_bytes(value): a fresh Serializer, and its output when serialize returns
to_bytes(value) == serialize(<<>>, value)

\* the type a value is decoded as: its shape and the types of its fields
Target(shape, tys) == [shape |-> shape, tys |-> tys]

TypeOf(value) ==
    Target(value.shape, [i \in 1..Len(value.fields) |-> value.fields[i].ty])

NoValue == SerdeValue("unit", <<>>, FALSE)

DeOk(value, rest) ==
    [kind |-> "Ok", required |-> "none", need |-> 0, value |-> value, rest |-> rest]

DeNeedMoreData(required, n, rest) ==
    [kind |-> "NeedMoreData", required |-> required, need |-> n, value |-> NoValue,
     rest |-> rest]

\* Error::TrailingCharacters
DeTrailingCharacters(rest) ==
    [kind |-> "TrailingCharacters", required |-> "none", need |-> 0, value |-> NoValue,
     rest |-> rest]

\* unimplemented!()
DePanic(rest) ==
    [kind |-> "Panic", required |-> "none", need |-> 0, value |-> NoValue, rest |-> rest]

\* faulty variant, for testing the property below: the size is not checked
check_size_unchecked(ty, input) == [ok |-> TRUE, size |-> size_of(ty), need |-> 0]

\* PrimitiveSerde::check_size
check_size(ty, input) ==
    LET size == size_of(ty)
    IN  IF Len(input) < size
        THEN [ok |-> FALSE, size |-> size, need |-> size - Len(input)]
        ELSE [ok |-> TRUE, size |-> size, need |-> 0]

\* Deserializer::parse::<T>(): check_size, then T::get on the input
parse(ty, input) ==
    LET c == check_size(ty, input)
    IN  IF ~c.ok THEN DeNeedMoreData("AtLeast", c.need, input)
        ELSE IF Len(input) < c.size THEN DePanic(input)
        ELSE DeOk(SerdeValue("prim", <<PrimitiveSerde_get(ty, input)>>, FALSE),
                  advance(input, c.size))

\* Deserializer::parse_bool: parse::<u32>() mapped with v == 1
parse_bool(input) ==
    LET r == parse("u32", input)
    IN  IF r.kind # "Ok" THEN r
        ELSE DeOk(SerdeValue("bool", <<>>, r.value.fields[1].lo = Small(1)), r.rest)

\* Deserializer::deserialize_seq: unimplemented!()
deserialize_seq(input) == DePanic(input)

\* T::deserialize(&mut deserializer): the Deserializer method serde calls for each shape
deserialize(target, input) ==
    CASE target.shape = "prim" -> parse(target.tys[1], input)
      [] target.shape = "bool" -> parse_bool(input)
      [] target.shape = "unit" -> DeOk(NoValue, input)
      [] target.shape = "newtype_struct" ->
            LET r == parse(target.tys[1], input)
            IN  IF r.kind # "Ok" THEN r
                ELSE DeOk(SerdeValue("newtype_struct", r.value.fields, FALSE), r.rest)
      [] target.shape \in FixedShapes \cup {"seq"} -> deserialize_seq(input)
      [] target.shape \in PanickingShapes -> DePanic(input)

\* faulty variant, for testing the property below: what is left in the input is ignored
from_buf_ignoring_rest(target, input) == deserialize(target, input)

\* from_buf(buf): deserialize, then TrailingCharacters if the input has bytes left
from_buf(target, input) ==
    LET r == deserialize(target, input)
    IN  IF r.kind # "Ok" THEN r
        ELSE IF r.rest # <<>> THEN DeTrailingCharacters(r.rest)
        ELSE r

\* T::unbuffer_ref of a typed message body: n 4-byte fields read one after another
RECURSIVE typed_unbuffer_ref(_, _)
typed_unbuffer_ref(n, b) ==
    IF n = 0 THEN [ok |-> TRUE, need |-> 0, fields |-> <<>>, rest |-> b]
    ELSE LET f == primitive_unbuffer_ref(b)
         IN  IF ~f.ok THEN [ok |-> FALSE, need |-> f.need, fields |-> <<>>, rest |-> f.rest]
             ELSE LET r == typed_unbuffer_ref(n - 1, f.rest)
                  IN  [r EXCEPT !.fields = <<Prim("i32", Small(0), Small(get_i32_be(f.bytes)))>>
                                           \o r.fields]

\* Message::<T>::try_from_generic(msg) for a body type of n fields: a NeedMoreData from
\* the body is turned into a parse error, bytes left over into Error::OtherMessage
try_from_generic(msg, n) ==
    LET r == typed_unbuffer_ref(n, msg.body.inner)
    IN  IF ~r.ok
        THEN [DePanic(r.rest) EXCEPT !.kind = "ParseError"]
        ELSE IF Len(r.rest) > 0
        THEN [DePanic(r.rest) EXCEPT !.kind = "OtherMessage"]
        ELSE DeOk(SerdeValue("struct", r.fields, FALSE), r.rest)

---------------------------------------------------------------------------
(* The serde layer as a state machine: one call per step *)

\* primitive values: zero, one, the extremes and values with distinct bytes
PrimValues ==
    {Prim("i8", Small(0), Small(n)) : n \in {0 - 128, 0 - 1, 0, 1, 127}}
    \cup {Prim("u8", Small(0), Small(n)) : n \in {0, 1, 255}}
    \cup {Prim("i16", Small(0), Small(n)) : n \in {0 - 32768, 0 - 2, 0, 1, 258}}
    \cup {Prim("u16", Small(0), Small(n)) : n \in {0, 1, 258, 65535}}
    \cup {Prim("i32", Small(0), Small(n)) : n \in {0 - 2147483647 - 1, 0 - 1, 0, 1, 16909060}}
    \cup {Prim("u32", Small(0), w) : w \in {Small(0), Small(1), Small(16909060), W(32, 0 - 1)}}
    \cup {Prim("i64", Small(h), l) : h \in {0 - 1, 0, 16909060},
                                      l \in {Small(1), Small(84281096), W(32, 0 - 1)}}
    \cup {Prim("u64", h, l) : h \in {Small(0), W(32, 0 - 1)},
                               l \in {Small(1), Small(84281096), W(32, 0 - 1)}}

\* field lists of the structs and tuples encoded
FieldLists ==
    { <<Prim("u8", Small(0), Small(1)), Prim("i16", Small(0), Small(0 - 2))>>,
      <<Prim("i32", Small(0), Small(16909060)), Prim("u8", Small(0), Small(255)),
        Prim("u64", Small(0), Small(84281096))>>,
      <<Prim("u32", Small(0), W(32, 0 - 1))>> }

SerdeValues ==
    {SerdeValue("prim", <<v>>, FALSE) : v \in PrimValues}
    \cup {SerdeValue("bool", <<>>, f) : f \in BOOLEAN}
    \cup {SerdeValue("unit", <<>>, FALSE)}
    \cup {SerdeValue("newtype_struct", <<Prim("i32", Small(0), Small(0 - 3))>>, FALSE)}
    \cup {SerdeValue(sh, fs, FALSE) : sh \in FixedShapes \cup {"seq"}, fs \in FieldLists}
    \cup {SerdeValue("seq", <<>>, FALSE)}
    \cup {SerdeValue(sh, <<>>, FALSE) : sh \in PanickingShapes \ {"some"}}
    \cup {SerdeValue("some", <<Prim("u8", Small(0), Small(1))>>, FALSE)}

\* hand-made input buffers: counting bytes, and the 32-bit integers 0, 1 and 2
SerdeBuffers ==
    {Body(n, s) : n \in 0..MaxSerdeBuf, s \in {0, 127, 250}}
    \cup {<<0, 0, 0, k>> \o Body(t, 9) : k \in 0..2, t \in 0..MaxTrailing}

SerdeTargets ==
    {Target("prim", <<ty>>) : ty \in PrimitiveTypes}
    \cup {Target("bool", <<>>), Target("unit", <<>>), Target("newtype_struct", <<"i32">>)}
    \cup {Target("struct", <<"u8", "i16">>), Target("tuple", <<"u32">>)}

NoSerde ==
    [fn |-> "none", arg |-> NoValue, target |-> Target("unit", <<>>), wire |-> <<>>,
     of_output |-> FALSE, fields |-> 0,
     kind |-> "none", required |-> "none", need |-> 0, value |-> NoValue, rest |-> <<>>]

\* the fields of a decode result, in a record of the call
Returned(call, r) ==
    [call EXCEPT !.kind = r.kind, !.required = r.required, !.need = r.need,
                 !.value = r.value, !.rest = r.rest]

notSerde == <<buildVars, sizeVars, codecVars, idVars, fileVars, readVars, pingVars, tableVars>>

\* to_bytes(&value)
ToBytes ==
    /\ \E value \in SerdeValues :
          LET r == to_bytes(value)
          IN  serde' = [NoSerde EXCEPT !.fn = "to_bytes", !.arg = value,
                                        !.target = TypeOf(value), !.wire = r.bytes,
                                        !.kind = r.kind]
    /\ UNCHANGED notSerde

\* from_buf::<T>(&mut buf) on the bytes to_bytes returned for a T, possibly with more
\* bytes after them
FromBufOfBytes ==
    /\ serde.fn = "to_bytes" /\ serde.kind = "Ok"
    /\ \E t \in 0..MaxTrailing :
          LET input == serde.wire \o Body(t, 7)
          IN  serde' = Returned([NoSerde EXCEPT !.fn = "from_buf", !.arg = serde.arg,
                                                 !.target = serde.target, !.wire = input,
                                                 !.of_output = (t = 0)],
                                from_buf(serde.target, input))
    /\ UNCHANGED notSerde

\* from_buf::<T>(&mut buf) on a hand-made buffer
FromBuf ==
    /\ \E target \in SerdeTargets, input \in SerdeBuffers :
          serde' = Returned([NoSerde EXCEPT !.fn = "from_buf", !.target = target,
                                             !.wire = input],
                            from_buf(target, input))
    /\ UNCHANGED notSerde

\* Deserializer::parse::<T>() on a hand-made buffer
Parse ==
    /\ \E ty \in PrimitiveTypes, input \in SerdeBuffers :
          serde' = Returned([NoSerde EXCEPT !.fn = "parse", !.target = Target("prim", <<ty>>),
                                             !.wire = input],
                            parse(ty, input))
    /\ UNCHANGED notSerde

\* Message::<T>::try_from_generic(&msg) of a decoded generic message
TryFromGeneric ==
    /\ \E msg \in Messages, n \in 0..MaxTypedFields :
          serde' = Returned([NoSerde EXCEPT !.fn = "try_from_generic",
                                             !.wire = msg.message.body.inner,
                                             !.fields = n],
                            try_from_generic(msg.message, n))
    /\ UNCHANGED notSerde

---------------------------------------------------------------------------
(* IDs: filters and ranges (types.rs) *)

\* Option<T> of an ID
None == [some |-> FALSE, id |-> 0]

Some(i) == [some |-> TRUE, id |-> i]

\* faulty variant, for testing the property below: a filter that is set matches anything
id_filter_matches_any(filter, other) == TRUE

\* id_filter_matches
id_filter_matches(filter, other) ==
    IF ~filter.some THEN TRUE ELSE filter.id = other

\* TypeId::is_system_message
is_system_message(type_id) == type_id < 0

\* Message::is_system_message
Message_is_system_message(msg) == is_system_message(msg.header.message_type)

\* RangedId::BelowZero / InArray / AboveArray
RangedId(variant, raw) == [variant |-> variant, raw |-> raw]

\* faulty variant, for testing the property below: the index one past the table accepted
determine_id_range_inclusive(id, len) ==
    LET raw == id
    IN  IF raw < 0 THEN RangedId("BelowZero", raw)
        ELSE LET index == Small(raw)
             IN  IF ~usize_lt(len, index) THEN RangedId("InArray", raw)
                 ELSE RangedId("AboveArray", raw)

\* determine_id_range
determine_id_range(id, len) ==
    LET raw == id
    IN  IF raw < 0 THEN RangedId("BelowZero", raw)
        ELSE LET index == Small(raw)
             IN  IF usize_lt(index, len) THEN RangedId("InArray", raw)
                 ELSE RangedId("AboveArray", raw)

\* a handler's filters against a message: both the type filter and the sender filter match
should_handle(type_filter, sender_filter, msg) ==
    /\ id_filter_matches(type_filter, msg.header.message_type)
    /\ id_filter_matches(sender_filter, msg.header.sender)

\* IdType values: around zero, and the extremes of i32
IdValues == ((0 - MaxId)..MaxId) \cup {0 - 2147483647 - 1, 2147483647}

IdFilters == {None} \cup {Some(i) : i \in IdValues}

\* table lengths: short tables, and one longer than any i32
TableLens == {Small(n) : n \in 0..MaxTableLen} \cup {W(32, 0)}

NoIdQuery ==
    [fn |-> "none", filter |-> None, sender_filter |-> None, id |-> 0, sender |-> 0,
     len |-> Small(0), matches |-> FALSE, range |-> RangedId("none", 0),
     system |-> FALSE, message_system |-> FALSE]

notIds == <<buildVars, sizeVars, codecVars, serdeVars, fileVars, readVars, pingVars, tableVars>>

\* id_filter_matches(filter, other)
CallIdFilterMatches ==
    /\ \E filter \in IdFilters, other \in IdValues :
          idq' = [NoIdQuery EXCEPT !.fn = "id_filter_matches", !.filter = filter,
                                    !.id = other,
                                    !.matches = id_filter_matches(filter, other)]
    /\ UNCHANGED notIds

\* determine_id_range(id, len), with is_system_message of the same ID
CallDetermineIdRange ==
    /\ \E id \in IdValues, len \in TableLens :
          idq' = [NoIdQuery EXCEPT
                     !.fn = "determine_id_range", !.id = id, !.len = len,
                     !.range = determine_id_range(id, len),
                     !.system = is_system_message(id),
                     !.message_system =
                         Message_is_system_message(
                             [header |-> MessageHeader(TimeVal(0, 0), id, 0),
                              body |-> GenericBody(<<>>)])]
    /\ UNCHANGED notIds

\* a handler registered with two filters, asked about a message
CallShouldHandle ==
    /\ \E type_filter \in {None, Some(4), Some(0 - 1)}, sender_filter \in {None, Some(3)},
          msg \in Messages :
          idq' = [NoIdQuery EXCEPT
                     !.fn = "should_handle", !.filter = type_filter,
                     !.sender_filter = sender_filter,
                     !.id = msg.message.header.message_type,
                     !.sender = msg.message.header.sender,
                     !.matches = should_handle(type_filter, sender_filter, msg.message)]
    /\ UNCHANGED notIds

---------------------------------------------------------------------------
(* EndpointFile: the cookie gate before framing (async_io/endpoint_file.rs) *)

\* a file: what its cookie says, the frames after it, and the read position
CookieOf(magic_ok, major_ok, minor) ==
    [magic_ok |-> magic_ok, major_ok |-> major_ok, minor |-> minor]

File(cookie, frames) == [cookie |-> cookie, frames |-> frames, pos |-> "start"]

\* read_and_check_file_cookie(file): reads the cookie, fails on a magic mismatch or an
\* unsupported major version, tolerates any minor version
read_and_check_file_cookie(file) ==
    IF ~file.cookie.magic_ok THEN [ok |-> FALSE, error |-> "bad magic", file |-> file]
    ELSE IF ~file.cookie.major_ok
    THEN [ok |-> FALSE, error |-> "unsupported major version", file |-> file]
    ELSE [ok |-> TRUE, error |-> "none", file |-> [file EXCEPT !.pos = "after cookie"]]

NoEndpoint ==
    [state |-> "none", error |-> "none", framed |-> FALSE, decoded |-> 0,
     file |-> File(CookieOf(TRUE, TRUE, 0), 0)]

\* faulty variant, for testing the property below: the cookie's verdict is dropped
EndpointFile_new_unchecked(file) ==
    LET r == read_and_check_file_cookie(file)
    IN  [NoEndpoint EXCEPT !.state = "open", !.framed = TRUE, !.file = r.file]

\* EndpointFile::new(file): `?` on the cookie check, then FramedMessageCodec.framed(file)
EndpointFile_new(file) ==
    LET r == read_and_check_file_cookie(file)
    IN  IF ~r.ok
        THEN [NoEndpoint EXCEPT !.state = "error", !.error = r.error, !.file = r.file]
        ELSE [NoEndpoint EXCEPT !.state = "open", !.framed = TRUE, !.file = r.file]

Files ==
    {File(CookieOf(magic_ok, major_ok, minor), frames) :
        magic_ok \in BOOLEAN, major_ok \in BOOLEAN, minor \in 0..MaxMinor,
        frames \in 0..MaxFrames}

\* what leaves an endpoint: the description of a local ID, or a message that uses one
Description(id) == [kind |-> "description", id |-> id]

Referencing(id) == [kind |-> "message", id |-> id]

SystemMessages == {Description(id) : id \in 0..MaxId}

GenericMessages == {Referencing(id) : id \in 0..MaxId}

\* bitflags ClassOfService (single flags)
ClassOfService ==
    {"Reliable", "FixedLatency", "LowLatency", "FixedThroughput", "HighThroughput"}

\* the outbound side of an endpoint: the last call and its outcome, the messages waiting
\* in the outbound buffer, and the messages the peer has processed, in order
NoOutbound ==
    [fn |-> "none", message |-> Description(0), result |-> "none",
     buffered |-> <<>>, peer |-> <<>>]

SendResult(result, buffered, peer) ==
    [result |-> result, buffered |-> buffered, peer |-> peer]

\* EndpointFile::send_system_change(&self, _message): unimplemented!()
send_system_change(o, message) == SendResult("panic", o.buffered, o.peer)

\* EndpointFile::buffer_generic_message(&mut self, _msg, _class): unimplemented!()
buffer_generic_message(o, msg, class) == SendResult("panic", o.buffered, o.peer)

Sent(fn, message, r) ==
    [fn |-> fn, message |-> message, result |-> r.result,
     buffered |-> r.buffered, peer |-> r.peer]

notFile == <<buildVars, sizeVars, codecVars, serdeVars, idVars, readVars, pingVars, tableVars>>

\* EndpointFile::new(file)
OpenFile ==
    /\ endpoint.state = "none"
    /\ \E file \in Files : endpoint' = EndpointFile_new(file)
    /\ UNCHANGED <<outbound, notFile>>

\* the framed codec of an EndpointFile decodes the next frame of the file
PollFile ==
    /\ endpoint.framed
    /\ endpoint.decoded < endpoint.file.frames
    /\ endpoint' = [endpoint EXCEPT !.decoded = @ + 1]
    /\ UNCHANGED <<outbound, notFile>>

\* the EndpointFile, or the error, is dropped
CloseFile ==
    /\ endpoint.state # "none"
    /\ endpoint' = NoEndpoint
    /\ outbound' = NoOutbound
    /\ UNCHANGED notFile

\* Endpoint::send_system_change(message) on an open EndpointFile
SendSystemChange ==
    /\ endpoint.state = "open"
    /\ \E message \in SystemMessages :
          outbound' = Sent("send_system_change", message,
                           send_system_change(outbound, message))
    /\ UNCHANGED <<endpoint, notFile>>

\* Endpoint::buffer_generic_message(msg, class) on an open EndpointFile
BufferGenericMessage ==
    /\ endpoint.state = "open"
    /\ \E msg \in GenericMessages, class \in ClassOfService :
          outbound' = Sent("buffer_generic_message", msg,
                           buffer_generic_message(outbound, msg, class))
    /\ UNCHANGED <<endpoint, notFile>>

---------------------------------------------------------------------------
(* Reading a stream into a BytesMut (vrpn_async_std/mod.rs) *)

\* CookieData::constant_buffer_size()
CookieData_constant_buffer_size == 24

\* a BytesMut: its bytes and its capacity
BytesMut(data, cap) == [data |-> data, cap |-> cap]

Max(a, b) == IF a >= b THEN a ELSE b

Min(a, b) == IF a <= b THEN a ELSE b

\* BytesMut::reserve(additional): nothing if the spare capacity suffices, else a capacity
\* of at least len + additional (exactly that, or the doubled capacity if that is more)
reserve(b, additional, doubled) ==
    IF b.cap - Len(b.data) >= additional THEN b
    ELSE BytesMut(b.data,
                  IF doubled THEN Max(2 * b.cap, Len(b.data) + additional)
                  ELSE Len(b.data) + additional)

\* BytesMut::extend_from_slice(extend): reserve(extend.len()), then the bytes appended
extend_from_slice(b, extend, doubled) ==
    LET r == reserve(b, Len(extend), doubled)
    IN  BytesMut(r.data \o extend, r.cap)

\* ReadExt::read_exact(stream, &mut local_buf): fills the whole buffer, or fails with
\* UnexpectedEof having taken what the stream had
read_exact(s, n) ==
    IF Len(s) < n THEN [ok |-> FALSE, bytes |-> <<>>, stream |-> <<>>]
    ELSE [ok |-> TRUE, bytes |-> SubSeq(s, 1, n), stream |-> advance(s, n)]

ReadResult(kind, n, b, s) == [kind |-> kind, n |-> n, buf |-> b, stream |-> s]

\* faulty variant, for testing the property below: the capacity noted before the reserve
read_n_into_bytes_mut_late_reserve(s, b, max_len, doubled) ==
    LET orig_cap == b.cap
        reserved == reserve(b, max_len, doubled)
        orig_len == Len(reserved.data)
        r        == read_exact(s, max_len)
        extended == extend_from_slice(reserved, r.bytes, doubled)
    IN  IF ~r.ok THEN ReadResult("Err", 0, reserved, r.stream)
        ELSE IF orig_cap # extended.cap
        THEN ReadResult("Panic", 0, extended, r.stream)
        ELSE IF orig_len + max_len # Len(extended.data)
        THEN ReadResult("Panic", 0, extended, r.stream)
        ELSE ReadResult("Ok", max_len, extended, r.stream)

\* read_n_into_bytes_mut(stream, buf, max_len)
read_n_into_bytes_mut(s, b, max_len, doubled) ==
    LET reserved == reserve(b, max_len, doubled)
        orig_cap == reserved.cap
        orig_len == Len(reserved.data)
        r        == read_exact(s, max_len)
        extended == extend_from_slice(reserved, r.bytes, doubled)
    IN  IF ~r.ok THEN ReadResult("Err", 0, reserved, r.stream)
        ELSE IF orig_cap # extended.cap
        THEN ReadResult("Panic", 0, extended, r.stream)
        ELSE IF orig_len + max_len # Len(extended.data)
        THEN ReadResult("Panic", 0, extended, r.stream)
        ELSE ReadResult("Ok", max_len, extended, r.stream)

\* read_cookie(stream, buf)
read_cookie(s, b, doubled) ==
    read_n_into_bytes_mut(s, b, CookieData_constant_buffer_size, doubled)

\* BytesMut::split(): the bytes written so far leave as one handle (capacity = length),
\* the spare capacity stays behind as an empty handle on the same allocation
split(b) ==
    [taken |-> BytesMut(b.data, Len(b.data)),
     left  |-> BytesMut(<<>>, b.cap - Len(b.data))]

\* <BytesMut as Clone>::clone(): a new allocation holding a copy of the bytes
clone(b) == BytesMut(b.data, Len(b.data))

\* AsyncReadExt::read(&mut self, buf: &mut [u8]): up to buf.len() bytes of the stream
read(s, slice_len, n) ==
    LET got == Min(n, Min(slice_len, Len(s)))
    IN  [n |-> got, bytes |-> SubSeq(s, 1, got), stream |-> advance(s, got)]

\* the slice a `&mut BytesMut` derefs to: its len() initialized bytes
deref_mut_len(b) == Len(b.data)

\* the bytes a read wrote into the slice, then BytesMut::set_len(n)
set_len(b, written, n) == BytesMut(SubSeq(written, 1, n), b.cap)

\* BytesMut::unsplit(other): self replaced if empty; nothing done for an `other` the
\* library takes for empty (no capacity, or in older versions no bytes); the two handles
\* joined if other starts where self ends in one allocation; else other's bytes copied
unsplit(self, other, adjacent, skips_no_bytes, doubled) ==
    IF Len(self.data) = 0 THEN other
    ELSE IF other.cap = 0 \/ (skips_no_bytes /\ Len(other.data) = 0) THEN self
    ELSE IF adjacent THEN BytesMut(self.data \o other.data, self.cap + other.cap)
    ELSE extend_from_slice(self, other.data, doubled)

\* read_into_bytes_mut(stream, buf)
read_into_bytes_mut(s, b, n, skips_no_bytes, doubled) ==
    LET orig_cap == b.cap
        orig_len == Len(b.data)
        parts    == split(b)
        r        == read(s, deref_mut_len(parts.left), n)
        filled   == set_len(parts.left, r.bytes, r.n)
        joined   == unsplit(parts.taken, clone(filled), FALSE, skips_no_bytes, doubled)
    IN  IF orig_cap # joined.cap THEN ReadResult("Panic", 0, joined, r.stream)
        ELSE IF orig_len + r.n # Len(joined.data)
        THEN ReadResult("Panic", 0, joined, r.stream)
        ELSE ReadResult("Ok", r.n, joined, r.stream)

\* BytesMutReader::read_from(self, stream)
read_from(s, b, n, skips_no_bytes, doubled) ==
    LET orig_cap == b.cap
        orig_len == Len(b.data)
        parts    == split(b)
        r        == read(s, deref_mut_len(parts.left), n)
        filled   == set_len(parts.left, r.bytes, r.n)
        joined   == unsplit(parts.taken, filled, TRUE, skips_no_bytes, doubled)
    IN  IF orig_cap # joined.cap THEN ReadResult("Panic", 0, joined, r.stream)
        ELSE IF orig_len + r.n # Len(joined.data)
        THEN ReadResult("Panic", 0, joined, r.stream)
        ELSE ReadResult("Ok", r.n, joined, r.stream)

NoRead ==
    [fn |-> "none", kind |-> "none", n |-> 0, buf_before |-> BytesMut(<<>>, 0),
     stream_before |-> <<>>]

ReadIdle == stream = <<>> /\ rbuf = BytesMut(<<>>, 0) /\ rd = NoRead

notRead == <<buildVars, sizeVars, codecVars, serdeVars, idVars, fileVars, pingVars, tableVars>>

\* a stream with some bytes to give, and a buffer that may hold bytes already
NewStream ==
    /\ ReadIdle
    /\ \E n \in 1..MaxStream, k \in 0..MaxBuffered, spare \in 0..MaxSpare :
          /\ stream' = Body(n, 1)
          /\ rbuf' = BytesMut(Body(k, 200), k + spare)
    /\ rd' = NoRead
    /\ UNCHANGED notRead

\* read_cookie(&mut stream, &mut buf).await
ReadCookie ==
    /\ stream # <<>>
    /\ rd.kind \in {"none", "Ok"}
    /\ \E doubled \in BOOLEAN :
          LET r == read_cookie(stream, rbuf, doubled)
          IN  /\ rd' = [fn |-> "read_cookie", kind |-> r.kind, n |-> r.n,
                        buf_before |-> rbuf, stream_before |-> stream]
              /\ rbuf' = r.buf
              /\ stream' = r.stream
    /\ UNCHANGED notRead

\* read_into_bytes_mut(&mut stream, &mut buf).await: the stream gives up to as many
\* bytes as the slice it is handed is long
ReadInto ==
    /\ stream # <<>>
    /\ rd.kind \in {"none", "Ok"}
    /\ \E skips_no_bytes \in BOOLEAN, doubled \in BOOLEAN :
       \E n \in 0..Min(Len(stream), deref_mut_len(split(rbuf).left)) :
          LET r == read_into_bytes_mut(stream, rbuf, n, skips_no_bytes, doubled)
          IN  /\ rd' = [fn |-> "read_into_bytes_mut", kind |-> r.kind, n |-> r.n,
                        buf_before |-> rbuf, stream_before |-> stream]
              /\ rbuf' = r.buf
              /\ stream' = r.stream
    /\ UNCHANGED notRead

\* BytesMutReader(buf).read_from(&mut stream).await
ReadFrom ==
    /\ stream # <<>>
    /\ rd.kind \in {"none", "Ok"}
    /\ \E skips_no_bytes \in BOOLEAN, doubled \in BOOLEAN :
       \E n \in 0..Min(Len(stream), deref_mut_len(split(rbuf).left)) :
          LET r == read_from(stream, rbuf, n, skips_no_bytes, doubled)
          IN  /\ rd' = [fn |-> "read_from", kind |-> r.kind, n |-> r.n,
                        buf_before |-> rbuf, stream_before |-> stream]
              /\ rbuf' = r.buf
              /\ stream' = r.stream
    /\ UNCHANGED notRead

---------------------------------------------------------------------------
(* The ping monitor (async_io/ping.rs) *)

\* timer periods after its ping was sent at which an unanswered ping is first reported
SilenceTicks == 3

\* the raw ping client: no ping outstanding, or one sent at a known time
Idle == [state |-> "Idle", sent_at |-> 0]

Awaiting(t) == [state |-> "Awaiting", sent_at |-> t]

CycleResult(kind, client, pinged, silence) ==
    [kind |-> kind, client |-> client, sent |-> pinged, silence |-> silence]

\* RawClient::check_ping_cycle(): Idle sends a ping and awaits its pong; Awaiting sends
\* nothing and reports the silence once it has lasted long enough
check_ping_cycle(client, t, link_up) ==
    IF client.state = "Idle"
    THEN IF ~link_up THEN CycleResult("Err", client, FALSE, 0)
         ELSE CycleResult("None", Awaiting(t), TRUE, 0)
    ELSE IF t - client.sent_at >= SilenceTicks
         THEN CycleResult("Some", client, FALSE, t - client.sent_at)
         ELSE CycleResult("None", client, FALSE, 0)

\* the raw client on a pong for its ping: no ping is outstanding any more
handle_pong(client) == Idle

PollResult(item, client, pinged, diagnostic, silence) ==
    [item |-> item, client |-> client, sent |-> pinged, diagnostic |-> diagnostic,
     silence |-> silence]

\* faulty variant, for testing the property below: the cycle runs on a copy of the client
poll_next_on_copy(client, interval_ready, t, link_up) ==
    IF ~interval_ready THEN PollResult("Pending", client, FALSE, FALSE, 0)
    ELSE LET r == check_ping_cycle(client, t, link_up)
         IN  IF r.kind = "Err" THEN PollResult("Ready(Some(Err))", client, r.sent, FALSE, 0)
             ELSE IF r.kind = "Some"
             THEN PollResult("Ready(Some(()))", client, r.sent, TRUE, r.silence)
             ELSE PollResult("Ready(Some(()))", client, r.sent, FALSE, 0)

\* faulty variant, for testing the properties below: the eprintln! is outside the `if let`
poll_next_reports_every_tick(client, interval_ready, t, link_up) ==
    IF ~interval_ready THEN PollResult("Pending", client, FALSE, FALSE, 0)
    ELSE LET r == check_ping_cycle(client, t, link_up)
         IN  IF r.kind = "Err" THEN PollResult("Ready(Some(Err))", r.client, r.sent, FALSE, 0)
             ELSE PollResult("Ready(Some(()))", r.client, r.sent, TRUE, r.silence)

\* faulty variant, for testing the properties below: reported silence ends the stream
poll_next_ends_on_silence(client, interval_ready, t, link_up) ==
    IF ~interval_ready THEN PollResult("Pending", client, FALSE, FALSE, 0)
    ELSE LET r == check_ping_cycle(client, t, link_up)
         IN  IF r.kind = "Err" THEN PollResult("Ready(Some(Err))", r.client, r.sent, FALSE, 0)
             ELSE IF r.kind = "Some"
             THEN PollResult("Ready(None)", r.client, r.sent, TRUE, r.silence)
             ELSE PollResult("Ready(Some(()))", r.client, r.sent, FALSE, 0)

\* Stream::poll_next for Client<T>: Pending until the interval fires; then one
\* check_ping_cycle, an eprintln! if it reports silence, and an item for the tick
poll_next(client, interval_ready, t, link_up) ==
    IF ~interval_ready THEN PollResult("Pending", client, FALSE, FALSE, 0)
    ELSE LET r == check_ping_cycle(client, t, link_up)
         IN  IF r.kind = "Err" THEN PollResult("Ready(Some(Err))", r.client, r.sent, FALSE, 0)
             ELSE IF r.kind = "Some"
             THEN PollResult("Ready(Some(()))", r.client, r.sent, TRUE, r.silence)
             ELSE PollResult("Ready(Some(()))", r.client, r.sent, FALSE, 0)

NoWire == [sent |-> 0, unanswered |-> 0, first_unanswered_at |-> 0]

NoPingEvent ==
    [kind |-> "none", item |-> "none", before |-> Idle, sent |-> FALSE,
     diagnostic |-> FALSE, silence |-> 0]

PingIdle == now = 0 /\ ping = Idle /\ wire = NoWire /\ pev = NoPingEvent

notPing == <<buildVars, sizeVars, codecVars, serdeVars, idVars, fileVars, readVars, tableVars>>

\* the event a poll leaves behind, and the ping it may have put on the wire
Polled(r, t) ==
    /\ ping' = r.client
    /\ wire' = IF r.sent
               THEN [sent |-> wire.sent + 1, unanswered |-> wire.unanswered + 1,
                     first_unanswered_at |->
                         IF wire.unanswered = 0 THEN t ELSE wire.first_unanswered_at]
               ELSE wire
    /\ pev' = [kind |-> "poll", item |-> r.item, before |-> ping, sent |-> r.sent,
               diagnostic |-> r.diagnostic, silence |-> r.silence]

\* a timer period ends and the stream is polled: the interval is ready
Tick ==
    /\ now < MaxTicks
    /\ now' = now + 1
    /\ \E link_up \in BOOLEAN : Polled(poll_next(ping, TRUE, now + 1, link_up), now + 1)
    /\ UNCHANGED notPing

\* the stream is polled between two timer periods: the interval is not ready
PollEarly ==
    /\ pev.item # "Pending"
    /\ Polled(poll_next(ping, FALSE, now, TRUE), now)
    /\ UNCHANGED <<now, notPing>>

\* the pong for the unanswered ping arrives
Pong ==
    /\ wire.unanswered > 0
    /\ ping' = handle_pong(ping)
    /\ wire' = [wire EXCEPT !.unanswered = 0]
    /\ pev' = [NoPingEvent EXCEPT !.kind = "pong", !.before = ping]
    /\ UNCHANGED <<now, notPing>>

---------------------------------------------------------------------------
(* ConnectionIP and its translation tables (connection_ip.rs) *)

\* the names a connection is asked about: name n stands for "Tracker<n-1>"
Names == 1..MaxNames

\* a translation table: its entries' names, the entry of local ID i at position i + 1
TranslationTable_new == <<>>

\* lookup_by_name(name): the local ID of the name, if it has one
TranslationTable_get_by_name(table, name) ==
    IF \E i \in 1..Len(table) : table[i] = name
    THEN Some((CHOOSE i \in 1..Len(table) : table[i] = name) - 1)
    ELSE None

\* add(name): the local ID the name already has, or a new entry whose ID is the length
TranslationTable_add(table, name) ==
    LET found == TranslationTable_get_by_name(table, name)
    IN  IF found.some THEN [table |-> table, id |-> found.id]
        ELSE [table |-> Append(table, name), id |-> Len(table)]

\* TypeDispatcher::new(): both tables empty
TypeDispatcher_new == [types |-> TranslationTable_new, senders |-> TranslationTable_new]

TypeDispatcher_add_type(d, name) ==
    LET r == TranslationTable_add(d.types, name)
    IN  [dispatcher |-> [d EXCEPT !.types = r.table], id |-> Some(r.id)]

TypeDispatcher_add_sender(d, name) ==
    LET r == TranslationTable_add(d.senders, name)
    IN  [dispatcher |-> [d EXCEPT !.senders = r.table], id |-> Some(r.id)]

TypeDispatcher_get_type_id(d, name) == TranslationTable_get_by_name(d.types, name)

TypeDispatcher_get_sender_id(d, name) == TranslationTable_get_by_name(d.senders, name)

NoConnection == [state |-> "none", dispatcher |-> TypeDispatcher_new, endpoints |-> 0]

\* ConnectionIP::new_server(local_log_names): a new dispatcher, no endpoint
new_server == [state |-> "server", dispatcher |-> TypeDispatcher_new, endpoints |-> 0]

\* ConnectionIP::new_client(local_log_names, remote_log_names): a new dispatcher, one endpoint
new_client == [state |-> "client", dispatcher |-> TypeDispatcher_new, endpoints |-> 1]

MappingResult(c, id) == [conn |-> c, id |-> id]

\* faulty variant, for testing the property below: add_type registers with the senders
add_type_with_senders(c, name) ==
    LET r == TypeDispatcher_add_sender(c.dispatcher, name)
    IN  MappingResult([c EXCEPT !.dispatcher = r.dispatcher], r.id)

\* Connection::add_type for ConnectionIP: self.dispatcher.add_type(name)
add_type(c, name) ==
    LET r == TypeDispatcher_add_type(c.dispatcher, name)
    IN  MappingResult([c EXCEPT !.dispatcher = r.dispatcher], r.id)

\* Connection::add_sender for ConnectionIP: self.dispatcher.add_sender(name)
add_sender(c, name) ==
    LET r == TypeDispatcher_add_sender(c.dispatcher, name)
    IN  MappingResult([c EXCEPT !.dispatcher = r.dispatcher], r.id)

\* Connection::get_type_id for ConnectionIP: self.dispatcher.get_type_id(name)
get_type_id(c, name) == MappingResult(c, TypeDispatcher_get_type_id(c.dispatcher, name))

\* Connection::get_sender_id for ConnectionIP: self.dispatcher.get_sender_id(name)
get_sender_id(c, name) == MappingResult(c, TypeDispatcher_get_sender_id(c.dispatcher, name))

NothingIssued == [cat \in {"type", "sender"} |-> [n \in Names |-> {}]]

NoTableEvent == [op |-> "none", cat |-> "type", name |-> 1, id |-> None, before |-> NoConnection]

TableIdle == conn = NoConnection /\ issued = NothingIssued /\ tev = NoTableEvent

notTable ==
    <<buildVars, sizeVars, codecVars, serdeVars, idVars, fileVars, readVars, pingVars>>

\* the call's result, and the ID it gave out for the name, recorded
Mapped(op, cat, name, r) ==
    /\ conn' = r.conn
    /\ issued' = IF r.id.some
                 THEN [issued EXCEPT ![cat][name] = @ \cup {r.id.id}]
                 ELSE issued
    /\ tev' = [op |-> op, cat |-> cat, name |-> name, id |-> r.id, before |-> conn]

\* ConnectionIP::new_server / new_client
NewConnection ==
    /\ conn.state = "none"
    /\ conn' \in {new_server, new_client}
    /\ UNCHANGED <<issued, tev, notTable>>

AddType ==
    /\ conn.state # "none"
    /\ \E name \in Names : Mapped("add", "type", name, add_type(conn, name))
    /\ UNCHANGED notTable

AddSender ==
    /\ conn.state # "none"
    /\ \E name \in Names : Mapped("add", "sender", name, add_sender(conn, name))
    /\ UNCHANGED notTable

GetTypeId ==
    /\ conn.state # "none"
    /\ \E name \in Names : Mapped("get", "type", name, get_type_id(conn, name))
    /\ UNCHANGED notTable

GetSenderId ==
    /\ conn.state # "none"
    /\ \E name \in Names : Mapped("get", "sender", name, get_sender_id(conn, name))
    /\ UNCHANGED notTable

---------------------------------------------------------------------------
(* Specifications *)

Init ==
    /\ overflow_checks \in BOOLEAN
    /\ calc = NoCalc
    /\ CodecIdle
    /\ serde = NoSerde
    /\ idq = NoIdQuery
    /\ endpoint = NoEndpoint
    /\ outbound = NoOutbound
    /\ ReadIdle
    /\ PingIdle
    /\ TableIdle

Next == NewBuffer \/ Encode \/ Transmit \/ LoadRaw \/ Decode \/ Supply

Spec == Init /\ [][Next]_vars

NextSize == CallFromUnpaddedBodySize \/ CallFromLengthField

SpecSize == Init /\ [][NextSize]_vars

NextSerde == ToBytes \/ FromBufOfBytes \/ FromBuf \/ Parse \/ TryFromGeneric

SpecSerde == Init /\ [][NextSerde]_vars

NextIds == CallIdFilterMatches \/ CallDetermineIdRange \/ CallShouldHandle

SpecIds == Init /\ [][NextIds]_vars

NextFile == OpenFile \/ PollFile \/ CloseFile \/ SendSystemChange \/ BufferGenericMessage

SpecFile == Init /\ [][NextFile]_vars

NextRead == NewStream \/ ReadCookie \/ ReadInto \/ ReadFrom

SpecRead == Init /\ [][NextRead]_vars

NextPing == Tick \/ PollEarly \/ Pong

SpecPing == Init /\ [][NextPing]_vars

NextTable == NewConnection \/ AddType \/ AddSender \/ GetTypeId \/ GetSenderId

SpecTable == Init /\ [][NextTable]_vars

---------------------------------------------------------------------------
(* Properties of the size arithmetic (checked under SpecSize) *)

\* the exact sum a + k, not reduced to any machine width
Plus(a, k) == W(a.pow, a.off + k)

\* a <= u32::MAX
FitsU32(a) == usize_lt(a, W(32, 0))

OfBodySize == calc.fn = "from_unpadded_body_size"

\* C1 (as stated): for every unpadded body size L >= 0,
\* from_unpadded_body_size(L).length_field() equals 24 + L.
C1_LengthFieldIs24PlusL ==
    OfBodySize => calc.length_field = Plus(calc.arg, 24)

\* C1 (amended): for every L with 24 + L <= u32::MAX, length_field() equals 24 + L; and
\* for every L it equals the len_field of the transcribed marshalling arithmetic.
C1_LengthFieldWithinU32 ==
    OfBodySize =>
        /\ FitsU32(Plus(calc.arg, 24)) => calc.length_field = Plus(calc.arg, 24)
        /\ calc.length_field = transcribed_padding_function(calc.arg).len_field

\* body size 17 gives length field 41
C1_Witness ==
    OfBodySize /\ calc.arg = Small(17) /\ calc.length_field = Small(41)

\* C2: for every unpadded body size L, padded_message_size() equals 24 + padded(L), where
\* padded(L) = L + compute_padding(L) is the smallest multiple of 8 that is >= L and
\* compute_padding(L) = (8 - L mod 8) mod 8; so padded_message_size() is a multiple of 8,
\* and it equals the total_len of the transcribed marshalling arithmetic.
C2_PaddedMessageSize ==
    OfBodySize =>
        LET pad == (8 - (calc.arg.off % 8)) % 8
            p   == Plus(calc.arg, pad)
        IN  /\ compute_padding(calc.arg) = pad
            /\ padded(calc.arg) = p
            /\ p.off % 8 = 0 /\ pad \in 0..7
            /\ calc.padded_message_size = Plus(p, 24)
            /\ usize_rem(calc.padded_message_size, 8) = 0
            /\ calc.padded_message_size = transcribed_padding_function(calc.arg).total_len

\* body size 17 gives a 48-byte frame
C2_Witness ==
    OfBodySize /\ calc.arg = Small(17) /\ calc.padded_message_size = Small(48)

\* C8: for every valid MessageSize (body length L with 24 + L representable in the u32
\* length field), from_length_field(size.length_field()) = size.
C8_LengthFieldRoundtrip ==
    (OfBodySize /\ FitsU32(Plus(calc.arg, 24))) => calc.back = calc.size

\* the largest valid size: 24 + L = u32::MAX
C8_Witness ==
    OfBodySize /\ calc.arg = W(32, 0 - 25) /\ calc.back = calc.size

\* C9: for every length field f from 20 up (the range of the roundtrip property test),
\* from_length_field(f) is computed and from_length_field(f).length_field() = f.
C9_RoundtripFrom20 ==
    (calc.fn = "from_length_field" /\ calc.arg.pow = 0 /\ calc.arg.off >= 20) =>
        /\ calc.size.unpadded_body_size # Panic
        /\ calc.length_field = calc.arg

---------------------------------------------------------------------------
(* Properties of the frame codec (checked under Spec) *)

Encoded == ret.fn = "buffer_ref"

Decoded == ret.fn = "unbuffer_ref"

BodyOf(msg) == msg.message.body.inner

\* the bytes the last encode call appended to the destination
Written == advance(out.data, Len(before))

\* C3: encoding a sequenced generic message and decoding the bytes produced yields a
\* message with the same timestamp, sender, type, sequence number and body bytes, for
\* every body length: the k-th decode of an untruncated buffer returns the k-th message.
C3_CodecRoundtrip ==
    (origin = "frames" /\ held = <<>> /\ ~supplied /\ calls <= Len(sent)) =>
        /\ clean
        /\ Len(delivered) = calls
        /\ \A i \in 1..calls : delivered[i] = sent[i]

\* a message whose body length is no multiple of 8 came back equal
C3_Witness ==
    /\ origin = "frames" /\ held = <<>> /\ ~supplied
    /\ calls = 1 /\ delivered = sent
    /\ Len(BodyOf(sent[1])) % 8 = 5
    /\ sent[1].message.header.message_type < 0

\* C4, for a frame whose length field arrived (1 <= K <= frame size - 4): decoding the
\* frame without its last K bytes fails with NeedMoreData(Exactly(K)), and once those
\* K bytes are appended the retried decode succeeds and returns the frame.
C4_TruncatedThenRetried ==
    (origin = "frames" /\ Len(sent) = 1) =>
        /\ (calls = 1 /\ Decoded /\ held # <<>> /\ Len(before) >= SIZE_OF_U32) =>
               /\ ret.kind = "NeedMoreData"
               /\ ret.required = "Exactly"
               /\ ret.bytes = Small(Len(held))
        /\ (calls = 2 /\ Decoded /\ supplied) =>
               /\ ret.kind = "Ok"
               /\ ret.msg = sent[1]

\* C5, for a buffer holding encoded frames: a decode attempt that fails with
\* NeedMoreData leaves the input buffer exactly as it was before the call.
C5_NeedMoreDataLeavesBuffer ==
    (origin = "frames" /\ Decoded /\ ret.kind = "NeedMoreData") => buf = before

\* C6: encoding into a destination with fewer free bytes than padded_message_size() fails
\* with OutOfBuffer and writes nothing; with at least that many free bytes it succeeds.
C6_OutOfBuffer ==
    Encoded =>
        IF ret.room < buffer_size(ret.msg).off
        THEN ret.kind = "OutOfBuffer" /\ out.data = before /\ out.room = ret.room
        ELSE ret.kind = "Ok"

\* one free byte short of the frame
C6_Witness ==
    /\ Encoded /\ ret.kind = "OutOfBuffer"
    /\ ret.room + 1 = buffer_size(ret.msg).off
    /\ out.data = before

\* C7: a successful encode appends, in this order, the big-endian u32 length field
\* (24 + body length), seconds, microseconds, sender, type, sequence number, the body
\* bytes and body_padding() zero bytes: padded_message_size() = buffer_size() bytes.
C7_FrameLayout ==
    (Encoded /\ ret.kind = "Ok") =>
        LET w    == Written
            hdr  == ret.msg.message.header
            n    == Len(BodyOf(ret.msg))
            size == generic_message_size(ret.msg)
        IN  /\ SubSeq(out.data, 1, Len(before)) = before
            /\ Len(w) = padded_message_size(size).off
            /\ Len(w) = buffer_size(ret.msg).off
            /\ Len(w) = 24 + n + body_padding(size)
            /\ ret.room - out.room = Len(w)
            /\ SubSeq(w, 1, 4) = <<0, 0, 0, 24 + n>>
            /\ get_i32_be(SubSeq(w, 5, 8)) = hdr.time.sec
            /\ get_i32_be(SubSeq(w, 9, 12)) = hdr.time.usec
            /\ get_i32_be(SubSeq(w, 13, 16)) = hdr.sender
            /\ get_i32_be(SubSeq(w, 17, 20)) = hdr.message_type
            /\ get_u32_be(SubSeq(w, 21, 24)) = ret.msg.sequence_number
            /\ SubSeq(w, 25, 24 + n) = BodyOf(ret.msg)
            /\ \A i \in (25 + n)..Len(w) : w[i] = 0

\* a 5-byte body followed by 3 bytes of padding, from a negative sender ID
C7_Witness ==
    /\ Encoded /\ ret.kind = "Ok"
    /\ Len(BodyOf(ret.msg)) = 5 /\ Len(Written) = 32
    /\ ret.msg.message.header.sender < 0

\* C10: the unpadded header is 20 bytes (4 length + 8 timestamp + 4 sender + 4 type) and
\* the 4-byte sequence number makes it 24, a multiple of 8; and neither assertion inside
\* the decoder fails on any input buffer on which decoding reaches it.
C10_DecodeAssertionsHold ==
    /\ UNPADDED_HEADER_SIZE = 4 + 8 + 4 + 4
    /\ (UNPADDED_HEADER_SIZE + SIZE_OF_U32) % ALIGN = 0
    /\ Decoded => ret.panic \notin {"assert aligned", "assert body_buf empty"}
    /\ (Decoded /\ ret.kind = "Ok") =>
           /\ (Len(before) - Len(buf)) % ALIGN = 0
           /\ Len(before) - Len(buf) - Len(BodyOf(ret.msg)) - 24 \in 0..7

\* a hand-made buffer decoded past both assertions, with a body that needed padding
C10_Witness ==
    /\ Decoded /\ ret.kind = "Ok" /\ origin = "raw"
    /\ Len(BodyOf(ret.msg)) = 3

---------------------------------------------------------------------------
(* Properties of the serde layer (checked under SpecSerde) *)

\* the shapes from_buf decodes without reaching unimplemented!()
DecodableShapes == {"prim", "bool", "unit", "newtype_struct"}

\* the bytes a complete value of the target type takes from the input
DecodedWidth(target) ==
    CASE target.shape = "bool" -> 4
      [] target.shape = "unit" -> 0
      [] target.shape \in {"prim", "newtype_struct"} -> size_of(target.tys[1])

\* C11: when a value was completely decoded from a buffer meant to hold exactly that
\* value and bytes remain, the decode fails with a fatal error (TrailingCharacters from
\* from_buf, Error::OtherMessage from try_from_generic), never with NeedMoreData, and no
\* value is returned.
C11_TrailingBytesAreFatal ==
    /\ (/\ serde.fn = "from_buf"
        /\ serde.target.shape \in DecodableShapes
        /\ Len(serde.wire) > DecodedWidth(serde.target)) =>
           /\ serde.kind = "TrailingCharacters"
           /\ serde.value = NoValue
           /\ serde.rest = advance(serde.wire, DecodedWidth(serde.target))
    /\ (serde.fn = "try_from_generic" /\ Len(serde.wire) > 4 * serde.fields) =>
           /\ serde.kind = "OtherMessage"
           /\ serde.value = NoValue

\* a u16 decoded from three bytes
C11_Witness ==
    /\ serde.fn = "from_buf" /\ serde.target = Target("prim", <<"u16">>)
    /\ Len(serde.wire) = 3 /\ serde.kind = "TrailingCharacters"

\* C12: decoding a primitive of width w from a buffer with r < w bytes remaining fails
\* with NeedMoreData carrying w - r and consumes nothing; with r >= w it succeeds and
\* consumes exactly w bytes.
C12_PrimitiveNeedMoreData ==
    serde.fn = "parse" =>
        LET w == size_of(serde.target.tys[1])
            r == Len(serde.wire)
        IN  IF r < w
            THEN /\ serde.kind = "NeedMoreData"
                 /\ serde.need = w - r
                 /\ serde.rest = serde.wire
            ELSE /\ serde.kind = "Ok"
                 /\ serde.rest = SubSeq(serde.wire, w + 1, r)
                 /\ serde.value.fields[1].ty = serde.target.tys[1]

\* an i64 asked of a 5-byte buffer
C12_Witness ==
    /\ serde.fn = "parse" /\ serde.target.tys = <<"i64">>
    /\ Len(serde.wire) = 5 /\ serde.kind = "NeedMoreData" /\ serde.need = 3

\* C13: the serializer encodes a boolean as a 4-byte big-endian integer holding 1 or 0,
\* and deserializing the bytes it produced returns the boolean with no bytes left over.
C13_BoolRoundtrip ==
    /\ (serde.fn = "to_bytes" /\ serde.arg.shape = "bool") =>
           /\ serde.kind = "Ok"
           /\ serde.wire = <<0, 0, 0, IF serde.arg.flag THEN 1 ELSE 0>>
    /\ (serde.fn = "from_buf" /\ serde.of_output /\ serde.arg.shape = "bool") =>
           /\ serde.kind = "Ok"
           /\ serde.value = serde.arg
           /\ serde.rest = <<>>

\* the big-endian bytes of each field in declaration order
RECURSIVE FieldBytes(_)
FieldBytes(fields) ==
    IF fields = <<>> THEN <<>>
    ELSE PrimitiveSerde_put(Head(fields)) \o FieldBytes(Tail(fields))

\* C14: a struct or tuple of fixed-width primitives is encoded by to_bytes as the
\* concatenation of its fields' big-endian encodings in declaration order, and from_buf
\* on those bytes returns a value equal to the original.
C14_StructRoundtrip ==
    /\ (serde.fn = "to_bytes" /\ serde.arg.shape \in FixedShapes) =>
           /\ serde.kind = "Ok"
           /\ serde.wire = FieldBytes(serde.arg.fields)
    /\ (serde.fn = "from_buf" /\ serde.of_output /\ serde.arg.shape \in FixedShapes) =>
           /\ serde.kind = "Ok"
           /\ serde.value = serde.arg

\* the shapes the wire layer does not support
UnsupportedShapes ==
    {"str", "none", "some", "map", "seq", "unit_variant", "newtype_variant",
     "tuple_variant", "struct_variant"}

\* C15: to_bytes never returns successfully with output bytes for a string, an optional
\* value, a map, a dynamically-sized sequence or a tagged-union variant.
C15_UnsupportedRejected ==
    (serde.fn = "to_bytes" /\ serde.arg.shape \in UnsupportedShapes) =>
        ~(serde.kind = "Ok" /\ Len(serde.wire) > 0)

---------------------------------------------------------------------------
(* Properties of the ID helpers (checked under SpecIds) *)

\* C16: id_filter_matches(filter, value) is true for every value when filter is None, and
\* for Some(x) exactly when x = value; so a handler registered with (None, None) matches
\* every message, and one registered with (Some(t), None) exactly those of type t.
C16_IdFilterMatches ==
    /\ idq.fn = "id_filter_matches" =>
           IF idq.filter = None THEN idq.matches
           ELSE idq.matches <=> (idq.filter.id = idq.id)
    /\ (idq.fn = "should_handle" /\ idq.sender_filter = None) =>
           IF idq.filter = None THEN idq.matches
           ELSE idq.matches <=> (idq.filter.id = idq.id)

\* a filter on one ID asked about the other extreme of i32
C16_Witness ==
    /\ idq.fn = "id_filter_matches" /\ idq.filter = Some(0 - 2147483647 - 1)
    /\ idq.id = 2147483647 /\ ~idq.matches

\* C17: every ID falls in exactly one range against a table of length len: BelowZero
\* exactly when it is negative (exactly when is_system_message is true), InArray exactly
\* when 0 <= value < len, AboveArray exactly when value >= len; the raw value is kept.
C17_IdRange ==
    idq.fn = "determine_id_range" =>
        LET below == idq.id < 0
            in_array == idq.id >= 0 /\ (idq.len.pow = 32 \/ idq.id < idq.len.off)
        IN  /\ idq.range.variant \in {"BelowZero", "InArray", "AboveArray"}
            /\ (idq.range.variant = "BelowZero") <=> below
            /\ below <=> idq.system
            /\ below <=> idq.message_system
            /\ (idq.range.variant = "InArray") <=> in_array
            /\ (idq.range.variant = "AboveArray") <=> (~below /\ ~in_array)
            /\ idq.range.raw = idq.id

\* the first ID past the end of a table
C17_Witness ==
    /\ idq.fn = "determine_id_range" /\ idq.len = Small(MaxTableLen)
    /\ idq.id = MaxTableLen /\ idq.range = RangedId("AboveArray", MaxTableLen)

---------------------------------------------------------------------------
(* Properties of EndpointFile (checked under SpecFile) *)

Accepted(cookie) == cookie.magic_ok /\ cookie.major_ok

\* C18: the cookie check is a fail-closed gate before framing: EndpointFile::new checks
\* the cookie before the codec is attached; when the check fails (bad magic or
\* unsupported major version) it returns an error and no endpoint, so no frame is ever
\* decoded on a stream whose cookie was not accepted.
C18_CookieGate ==
    /\ endpoint.state \in {"none", "error", "open"}
    /\ (endpoint.state # "none" /\ ~Accepted(endpoint.file.cookie)) =>
           /\ endpoint.state = "error"
           /\ endpoint.error # "none"
    /\ endpoint.state = "error" => ~endpoint.framed /\ endpoint.decoded = 0
    /\ endpoint.framed =>
           /\ endpoint.state = "open"
           /\ Accepted(endpoint.file.cookie)
           /\ endpoint.file.pos = "after cookie"
    /\ endpoint.decoded > 0 => endpoint.framed

\* a file with the right magic and an unsupported major version, and frames after it
C18_Witness ==
    /\ endpoint.state = "error"
    /\ endpoint.file.cookie.magic_ok /\ ~endpoint.file.cookie.major_ok
    /\ endpoint.file.frames > 0 /\ endpoint.decoded = 0

---------------------------------------------------------------------------
(* Properties of the stream reads (checked under SpecRead) *)

\* C19: a successful read_cookie takes exactly the cookie's width from the stream and
\* appends exactly those bytes after the bytes already in the buffer, which stay as they
\* were; and neither assertion of read_n_into_bytes_mut fails.
C19_ReadCookieExact ==
    rd.fn = "read_cookie" =>
        LET w == CookieData_constant_buffer_size
        IN  /\ rd.kind # "Panic"
            /\ (rd.kind = "Ok") <=> (Len(rd.stream_before) >= w)
            /\ rd.kind = "Ok" =>
                   /\ rd.n = w
                   /\ rbuf.data = rd.buf_before.data \o SubSeq(rd.stream_before, 1, w)
                   /\ Len(rbuf.data) = Len(rd.buf_before.data) + w
                   /\ stream = SubSeq(rd.stream_before, w + 1, Len(rd.stream_before))
                   /\ rbuf.cap >= Len(rbuf.data)

\* a cookie read after two bytes into a buffer that had to grow, with bytes left over
C19_Witness ==
    /\ rd.fn = "read_cookie" /\ rd.kind = "Ok"
    /\ Len(rd.buf_before.data) = 2 /\ rd.buf_before.cap < 26
    /\ stream # <<>>

---------------------------------------------------------------------------
(* Properties of the ping monitor (checked under SpecPing) *)

\* C20: on a timer tick a ping is sent only if the monitor is Idle, and it then is
\* Awaiting with the send time recorded; while it is Awaiting no ping is sent; so at most
\* one ping is unanswered, and the recorded time is that of the first unanswered ping.
C20_OnePingOutstanding ==
    /\ pev.sent =>
           /\ pev.kind = "poll" /\ pev.item = "Ready(Some(()))"
           /\ pev.before = Idle
           /\ ping = Awaiting(now)
    /\ (pev.kind = "poll" /\ pev.before.state = "Awaiting") =>
           /\ ~pev.sent
           /\ ping = pev.before
    /\ wire.unanswered <= 1
    /\ (ping.state = "Awaiting") <=> (wire.unanswered = 1)
    /\ ping.state = "Awaiting" => ping.sent_at = wire.first_unanswered_at

\* a tick that found the monitor Awaiting, two periods after the ping, and sent nothing
C20_Witness ==
    /\ pev.kind = "poll" /\ pev.item = "Ready(Some(()))"
    /\ pev.before.state = "Awaiting" /\ ~pev.sent
    /\ now = ping.sent_at + 2 /\ wire.sent = 1

\* C21: a pong received while the monitor is Awaiting makes it Idle with no ping
\* outstanding; a diagnostic is only ever about the ping that is still unanswered, at least
\* SilenceTicks periods after it was sent, so none fires for a ping answered before that;
\* and the tick after the pong reports nothing and, unless the send fails, sends a fresh
\* ping and is Awaiting from that tick's time.
C21_PongState ==
    /\ pev.kind = "pong" =>
           /\ pev.before.state = "Awaiting"
           /\ ping = Idle
           /\ wire.unanswered = 0
    /\ pev.diagnostic =>
           /\ ping.state = "Awaiting" /\ wire.unanswered = 1
           /\ ping.sent_at = wire.first_unanswered_at
           /\ pev.silence = now - ping.sent_at
           /\ pev.silence >= SilenceTicks

C21_TickAfterPong ==
    (ping = Idle /\ wire.sent > 0 /\ now' = now + 1) =>
        /\ ~pev'.diagnostic
        /\ pev'.item \in {"Ready(Some(()))", "Ready(Some(Err))"}
        /\ pev'.item = "Ready(Some(()))" =>
               /\ pev'.sent
               /\ wire'.sent = wire.sent + 1
               /\ ping' = Awaiting(now')

C22_SilenceChangesNothing ==
    /\ pev.item # "Ready(None)"
    /\ (pev.kind = "poll" /\ pev.item # "Pending" /\ pev.before.state = "Awaiting"
            /\ now - pev.before.sent_at >= SilenceTicks) =>
           /\ pev.diagnostic
           /\ pev.silence = now - pev.before.sent_at
           /\ pev.item = "Ready(Some(()))"
           /\ ping = pev.before
           /\ ~pev.sent
           /\ wire.unanswered = 1
           /\ now < MaxTicks => ENABLED Tick
    /\ pev.diagnostic =>
           /\ pev.kind = "poll" /\ pev.before.state = "Awaiting"
           /\ now - pev.before.sent_at >= SilenceTicks

\* the second report of the same silence, one period after the first
C22_Witness ==
    /\ pev.diagnostic /\ pev.item = "Ready(Some(()))"
    /\ pev.silence = SilenceTicks + 1
    /\ ping = pev.before /\ wire.sent = 1

---------------------------------------------------------------------------
(* Properties of the translation tables (checked under SpecTable) *)

TableOf(c, cat) == IF cat = "type" THEN c.dispatcher.types ELSE c.dispatcher.senders

OtherCat(cat) == IF cat = "type" THEN "sender" ELSE "type"

Registered(table, name) == \E i \in 1..Len(table) : table[i] = name

\* C23: an add of a name that has a local ID returns that ID and leaves the table as it
\* was; an add of a new name returns the table's length and appends the name; so over any
\* sequence of adds the IDs given out per table are 0, 1, 2, ... in order of first
\* registration, no ID is given to two names, no name ever gets two IDs, and
\* get_type_id / get_sender_id return the name's ID (or nothing before its first add).
C23_StableDenseIds ==
    /\ tev.op = "add" =>
           LET old == TableOf(tev.before, tev.cat)
               new == TableOf(conn, tev.cat)
           IN  /\ tev.id.some
               /\ IF Registered(old, tev.name)
                  THEN new = old /\ old[tev.id.id + 1] = tev.name
                  ELSE tev.id.id = Len(old) /\ new = Append(old, tev.name)
               /\ TableOf(conn, OtherCat(tev.cat)) = TableOf(tev.before, OtherCat(tev.cat))
    /\ tev.op = "get" =>
           /\ conn = tev.before
           /\ tev.id = IF issued[tev.cat][tev.name] = {} THEN None
                       ELSE Some(CHOOSE i \in issued[tev.cat][tev.name] : TRUE)
    /\ \A cat \in {"type", "sender"} :
           /\ \A n \in Names : Cardinality(issued[cat][n]) <= 1
           /\ \A n, m \in Names : n # m => issued[cat][n] \cap issued[cat][m] = {}
           /\ UNION {issued[cat][n] : n \in Names} = 0..(Len(TableOf(conn, cat)) - 1)
           /\ \A n \in Names : \A i \in issued[cat][n] : TableOf(conn, cat)[i + 1] = n

\* the second name, which got ID 1 after the first got 0, is added again and gets 1 again
C23_Witness ==
    /\ tev.op = "add" /\ tev.cat = "type"
    /\ tev.before = conn
    /\ tev.id = Some(1)
    /\ Len(conn.dispatcher.types) = 2
    /\ issued["type"][conn.dispatcher.types[1]] = {0}

---------------------------------------------------------------------------
(* Properties of the endpoint's outbound side (checked under SpecFile) *)

\* C24: send_system_change returns normally with its description processed by the peer,
\* the outbound buffer untouched, and whatever the peer has processed that references a
\* local ID comes after the description of that ID.
C24_DescriptionFirst ==
    /\ outbound.fn = "send_system_change" =>
           /\ outbound.result = "Ok"
           /\ \E i \in 1..Len(outbound.peer) : outbound.peer[i] = outbound.message
    /\ \A i \in 1..Len(outbound.peer) :
           outbound.peer[i].kind = "message" =>
               \E j \in 1..(i - 1) : outbound.peer[j] = Description(outbound.peer[i].id)

---------------------------------------------------------------------------
(* Further properties of frame decoding (checked under Spec) *)

\* the length field at the head of the buffer the last decode call was given
DeclaredLength == get_u32_be(SubSeq(before, 1, SIZE_OF_U32))

\* C25: a decode call on a frame whose length field declares a body of 2^32 - 48 bytes
\* or more (the largest u32 length fields) ends in a fatal error; it does not return a
\* frame and does not return the recoverable NeedMoreData.
C25_HugeLengthIsFatal ==
    (Decoded /\ Len(before) >= SIZE_OF_U32 /\ DeclaredLength.pow = 32) =>
        ret.kind \notin {"Ok", "NeedMoreData"}

\* C26: a successful decode returns as body the unpadded_body_size bytes after the
\* 24-byte header, drops the padding that fills the body up to a multiple of 8, and
\* leaves the buffer without its first padded_message_size bytes and otherwise as it was;
\* after one decode call per encoded frame the frames have come out in the order they
\* were encoded and the buffer is empty.
C26_OneFramePerDecode ==
    /\ (Decoded /\ ret.kind = "Ok") =>
           LET n     == DeclaredLength.off - 24
               pad   == (8 - (n % 8)) % 8
               total == 24 + n + pad
           IN  /\ n >= 0
               /\ Len(BodyOf(ret.msg)) = n
               /\ BodyOf(ret.msg) = SubSeq(before, 25, 24 + n)
               /\ padded_message_size(from_length_field(DeclaredLength)) = Small(total)
               /\ Len(before) >= total
               /\ buf = SubSeq(before, total + 1, Len(before))
    /\ (origin = "frames" /\ held = <<>> /\ ~supplied) =>
           /\ calls <= Len(sent) => delivered = SubSeq(sent, 1, calls)
           /\ calls = Len(sent) => buf = <<>>

\* two frames, the first with a padded body, decoded by two calls that emptied the buffer
C26_Witness ==
    /\ origin = "frames" /\ held = <<>> /\ ~supplied
    /\ Len(sent) = 2 /\ calls = 2 /\ delivered = sent /\ buf = <<>>
    /\ Len(BodyOf(sent[1])) = 3
    /\ sent[1] # sent[2]
    /\ Len(before) = 24

\* C29: every decode call returns a message or an error value: none aborts, and a
\* length field below 24 yields an error, not a message.
C29_DecodeNeverAborts ==
    Decoded =>
        /\ ret.kind # "Panic"
        /\ (Len(before) >= SIZE_OF_U32 /\ DeclaredLength.pow = 0 /\ DeclaredLength.off < 24) =>
               ret.kind # "Ok"

---------------------------------------------------------------------------
(* Further properties of reading a stream (checked under SpecRead) *)

\* C27: after read_into_bytes_mut or BytesMutReader::read_from has read n bytes, the
\* buffer holds the bytes it held before, then the n bytes taken from the stream, its
\* capacity is what it was, and neither assertion of the function has failed.
C27_ReadKeepsBuffered ==
    rd.fn \in {"read_into_bytes_mut", "read_from"} =>
        /\ rd.kind = "Ok"
        /\ rbuf.data = rd.buf_before.data \o SubSeq(rd.stream_before, 1, rd.n)
        /\ Len(rbuf.data) = Len(rd.buf_before.data) + rd.n
        /\ rbuf.cap = rd.buf_before.cap
        /\ stream = SubSeq(rd.stream_before, rd.n + 1, Len(rd.stream_before))

---------------------------------------------------------------------------
(* Further properties of the serde layer (checked under SpecSerde) *)

\* the 16-bit group of bytes i, i + 1 of b, most significant byte first
Half(b, i) == b[i] * 256 + b[i + 1]

\* b is the big-endian two's-complement encoding of the 32-bit word w
IsBigEndian32(b, w) ==
    /\ Half(b, 1) = (w.off \div 65536) % 65536
    /\ Half(b, 3) = w.off % 65536

\* C28: for each of i8, u8, i16, u16, i32, u32, i64, u64, to_bytes of a value writes
\* size_of bytes, the most significant first, and from_buf on those bytes returns the
\* value and leaves nothing; bytes that follow them are not consumed.
C28_IntegerBigEndianRoundtrip ==
    /\ (serde.fn = "to_bytes" /\ serde.arg.shape = "prim") =>
           LET v == serde.arg.fields[1]
               b == serde.wire
           IN  /\ serde.kind = "Ok"
               /\ Len(b) = size_of(v.ty)
               /\ \A i \in 1..Len(b) : b[i] \in 0..255
               /\ CASE Len(b) = 1 -> b[1] = v.lo.off % 256
                    [] Len(b) = 2 -> Half(b, 1) = v.lo.off % 65536
                    [] Len(b) = 4 -> IsBigEndian32(b, v.lo)
                    [] Len(b) = 8 -> /\ IsBigEndian32(SubSeq(b, 1, 4), v.hi)
                                     /\ IsBigEndian32(SubSeq(b, 5, 8), v.lo)
    /\ (serde.fn = "from_buf" /\ serde.arg.shape = "prim") =>
           LET v == serde.arg.fields[1]
           IN  IF serde.of_output
               THEN /\ serde.kind = "Ok"
                    /\ serde.value = serde.arg
                    /\ Len(serde.wire) = size_of(v.ty)
                    /\ serde.rest = <<>>
               ELSE /\ serde.kind = "TrailingCharacters"
                    /\ serde.rest = advance(serde.wire, size_of(v.ty))

\* a u64 above 2^63 with different bytes in each half came back from its 8 bytes
C28_Witness ==
    /\ serde.fn = "from_buf" /\ serde.of_output /\ serde.kind = "Ok"
    /\ serde.arg.shape = "prim"
    /\ serde.value.fields[1] = Prim("u64", W(32, 0 - 1), Small(84281096))
    /\ serde.wire = <<255, 255, 255, 255, 5, 6, 7, 8>>

=============================================================================
